---- MODULE Spec2Model ----
(***************************************************************************)
(* Model of processUrlsConcurrentlyInTabs, the concurrent task engine of   *)
(* src/lib/concurrency.core.ts (the "enhanced" engine) and of its older    *)
(* copy in src/lib/utils.ts (the "basic" engine).                          *)
(*                                                                         *)
(* JavaScript runs the engine on one event loop: code between two awaits   *)
(* is atomic.  Every action below is one such segment: it starts where a   *)
(* promise settles (the task function, the retry timer, a callback, the    *)
(* join of the workers or of a chunk) and runs to the next await.          *)
(***************************************************************************)
EXTENDS Integers, Sequences, FiniteSets, TLC

\* ---------------------------------------------------------------- bounds
MaxUrls == 2            \* longest input list
MaxConc == 2            \* largest maxConcurrency
MaxRetriesBound == 2    \* largest maxRetries
MaxOut == 1             \* longest list one task invocation returns
MaxAttempts == 4        \* most task invocations one run can need:
                        \* Len(urls) * (maxRetries + 1)
MaxCallbacks == 4       \* most callback invocations of one wave of parallel
                        \* items: (items in parallel) * (callbacks provided)
MaxSpins == 3           \* most iterations of a chunk loop that has no end
MaxAttemptsFair == 2    \* most task invocations of a run of the fair
                        \* specification
MaxLinks == 3           \* longest list of links given to scrapeProductLinks

\* The input strings: the empty string and two non-empty urls.
UrlValues == {"", "a", "b"}
\* retryDelayMs is a number of milliseconds (500 is the default) or a
\* function of the attempt number.  The function of the model is not linear
\* in the attempt number and starts below zero: -100, 800, 2700, ...
DelayValues == {0, 500}
DelayFunctions == {[k \in 1..MaxRetriesBound |-> 500 * k * k - 600 * k]}
DelayOptions == [kind : {"number"}, value : DelayValues]
                    \cup [kind : {"function"}, value : DelayFunctions]
DefaultDelay == [kind |-> "number", value |-> 500]

VARIABLES
    \* --- arguments and options of the call (fixed during a run)
    engine,             \* "enhanced" (concurrency.core.ts) or "basic" (utils.ts)
    mode,               \* "threads" | "portions"
    urls,               \* the input list
    maxConcurrency,
    maxRetries,
    retryDelayMs,
    onProgress,         \* TRUE iff an onProgress callback is provided
    onError,            \* TRUE iff an onError callback is provided
    isRetryable,        \* "default" (name = TimeoutError) or "all"
    \* --- the signal
    aborted,            \* signal.aborted
    \* --- the run
    pc,                 \* "start" | "workers" | "chunk" | "done"
    i,                  \* index of the current chunk (portions mode)
    urlQueue,           \* the shared queue (threads mode)
    workers,            \* one record per started worker
    execs,              \* one record per call of executeTaskWithRetries
    completedCount,
    totalRetriesMade,
    successfulResults,
    failedTasks,
    logHistory,
    onErrorCalls,       \* arguments of the onError invocations, in order
    onProgressCalls,    \* arguments of the onProgress invocations, in order
    result,             \* the value the call resolved to (NoResult before)
    \* --- history (not program state)
    abortSeen,          \* TRUE once the engine read the signal as set
    callbackThrew       \* TRUE once a callback threw or rejected

config == <<engine, mode, urls, maxConcurrency, maxRetries, retryDelayMs,
            onProgress, onError, isRetryable>>
shared == <<urlQueue, workers, execs, completedCount, totalRetriesMade,
            successfulResults, failedTasks, logHistory, onErrorCalls,
            onProgressCalls>>
vars == <<config, aborted, pc, i, shared, result, abortSeen, callbackThrew>>

\* ------------------------------------------------------------ small helpers
Min(a, b) == IF a <= b THEN a ELSE b
Range(s) == {s[k] : k \in DOMAIN s}
SeqsUpTo(S, n) == UNION {[1..k -> S] : k \in 0..n}

RECURSIVE SumSeq(_)
SumSeq(s) == IF s = <<>> THEN 0 ELSE Head(s) + SumSeq(Tail(s))

\* [...new Set(urls)]: the first occurrence of every value, in input order.
RECURSIVE Dedup(_)
Dedup(s) ==
    IF s = <<>> THEN <<>>
    ELSE LET front == Dedup(SubSeq(s, 1, Len(s) - 1))
             last  == s[Len(s)]
         IN  IF last \in Range(front) THEN front ELSE Append(front, last)

\* Lists that differ by a renaming of the values the engine cannot tell apart
\* have the same runs, and one list of each class is enough.  In threads mode
\* the engine compares items with each other (the Set) and with the empty
\* string (!url): "a" and "b" are interchangeable, and the list kept is the
\* one in which "a" occurs first.  In portions mode it compares nothing: all
\* values are interchangeable, and the list kept is the one in which the
\* values first occur in the order "a", "b", "".
FirstIndex(s, v) == IF v \in Range(s)
                    THEN CHOOSE k \in DOMAIN s : s[k] = v /\ \A j \in 1..(k - 1) : s[j] # v
                    ELSE Len(s) + 1
Canonical(m, s) ==
    /\ FirstIndex(s, "a") <= FirstIndex(s, "b")
    /\ m = "portions" => FirstIndex(s, "b") <= FirstIndex(s, "")

\* ------------------------------------------------------------------ errors
NoError == [name |-> "none", message |-> "none"]
\* what the task function may throw
TimeoutError   == [name |-> "TimeoutError", message |-> "timeout"]
PlainError     == [name |-> "Error", message |-> "failed"]
TaskAbortError == [name |-> "Error", message |-> "Operation aborted"]
TaskErrors == {TimeoutError, PlainError, TaskAbortError}
\* what the engine creates
OperationAborted   == [name |-> "Error", message |-> "Operation aborted"]
AbortedDuringDelay == [name |-> "Error", message |-> "Operation aborted during retry delay"]
AbortedBeforeStart == [name |-> "Error", message |-> "Operation aborted before starting"]

\* what one task invocation for url may resolve to: 0..MaxOut items
TaskOutputs(url) == {[k \in 1..n |-> [src |-> url, n |-> k]] : n \in 0..MaxOut}

NoResult == [status |-> "pending"]
NoUrl == "<undefined>"
NoAttempt == 0

\* --------------------------------------------------------- derived values
\* a queue seeded with the input list as given
uniqueUrls_AsGiven == urls

\* [...new Set(urls)]
uniqueUrls == Dedup(urls)
\* a list to process that is deduplicated in both modes
urlsToProcess_Deduplicated == uniqueUrls

urlsToProcess == IF mode = "threads" THEN uniqueUrls ELSE urls
\* a count of the distinct items, whatever the mode
totalUrlsToProcess_Distinct == Len(uniqueUrls)

totalUrlsToProcess == Len(urlsToProcess)
initialUrlCount == Len(urls)

\* the mutable state as one record, threaded through a segment, together
\* with the engine that runs the segment
Cur == [urlQueue |-> urlQueue, workers |-> workers, execs |-> execs,
        completedCount |-> completedCount, totalRetriesMade |-> totalRetriesMade,
        successfulResults |-> successfulResults, failedTasks |-> failedTasks,
        logHistory |-> logHistory, onErrorCalls |-> onErrorCalls,
        onProgressCalls |-> onProgressCalls, pc |-> pc, i |-> i,
        result |-> result, abortSeen |-> abortSeen,
        callbackThrew |-> callbackThrew, engine |-> engine]

Commit(S) ==
    /\ urlQueue' = S.urlQueue
    /\ workers' = S.workers
    /\ execs' = S.execs
    /\ completedCount' = S.completedCount
    /\ totalRetriesMade' = S.totalRetriesMade
    /\ successfulResults' = S.successfulResults
    /\ failedTasks' = S.failedTasks
    /\ logHistory' = S.logHistory
    /\ onErrorCalls' = S.onErrorCalls
    /\ onProgressCalls' = S.onProgressCalls
    /\ pc' = S.pc
    /\ i' = S.i
    /\ result' = S.result
    /\ abortSeen' = S.abortSeen
    /\ callbackThrew' = S.callbackThrew

\* log(): the enhanced engine appends an entry to logHistory; the basic engine
\* only writes to the console.  The engine never reads logHistory.  The model
\* keeps the one array as its projections: the entries an execution of
\* executeTaskWithRetries logs (execs[e].log), the entries a worker logs
\* (workers[w].log) and the entries of the run itself (logHistory), each in
\* the order of creation; the order between two projections is not kept.
LogEntry(level, message, url, attempt) ==
    [level |-> level, message |-> message, url |-> url, attempt |-> attempt]

log(S, level, message) ==
    IF S.engine = "enhanced"
    THEN [S EXCEPT !.logHistory = Append(@, LogEntry(level, message, NoUrl, NoAttempt))]
    ELSE S

logWorker(S, w, level, message) ==
    IF S.engine = "enhanced"
    THEN [S EXCEPT !.workers[w].log = Append(@, LogEntry(level, message, NoUrl, NoAttempt))]
    ELSE S

\* a log that keeps only the newest entry of an execution
logExec_KeepsLast(S, e, level, message, attempt) ==
    IF engine = "enhanced"
    THEN [S EXCEPT !.execs[e].log = <<LogEntry(level, message, S.execs[e].url, attempt)>>]
    ELSE S

logExec(S, e, level, message, attempt) ==
    IF S.engine = "enhanced"
    THEN [S EXCEPT !.execs[e].log =
              Append(@, LogEntry(level, message, S.execs[e].url, attempt))]
    ELSE S

\* an isRetryable that accepts every error
IsRetryable_RetryAll(err) == TRUE

\* isRetryable(error): the option of the enhanced engine; the basic engine
\* retries every error.
IsRetryable(err) ==
    IF engine = "basic" \/ isRetryable = "all" THEN TRUE
    ELSE err.name = "TimeoutError"

\* a delay that is the number itself, whatever the attempt
RetryDelay_Constant(attempts) ==
    IF retryDelayMs.kind = "function"
    THEN retryDelayMs.value[attempts]
    ELSE retryDelayMs.value

\* the delay before the retry that follows the attempts-th failure
RetryDelay(attempts) ==
    IF retryDelayMs.kind = "function"
    THEN retryDelayMs.value[attempts]
    ELSE retryDelayMs.value * attempts

\* ------------------------------------------------ executeTaskWithRetries
\* the local variables of one call of executeTaskWithRetries
NewExec(url, owner) ==
    [url |-> url, owner |-> owner, pc |-> "new", attempts |-> 0,
     lastError |-> NoError, hasResult |-> FALSE, taskResult |-> <<>>,
     successCount |-> 0, failureCount |-> 0, delay |-> 0, log |-> <<>>,
     \* history: task invocations made, and how the retry loop was left
     calls |-> 0, outcome |-> "pending"]

NoStat == 0 - 1

\* "if (onProgress && lastError?.message !== 'Operation aborted')": the call
\* of onProgress and the return of executeTaskWithRetries.
ProgressPart(S, e) ==
    LET x == S.execs[e]
    IN  IF onProgress /\ x.lastError.message # "Operation aborted"
        THEN [S EXCEPT !.execs[e].pc = "onProgress",
                       !.onProgressCalls = Append(@,
                           IF S.engine = "enhanced"
                           THEN [completedCount |-> S.completedCount,
                                 totalCount |-> totalUrlsToProcess,
                                 totalSuccess |-> x.successCount,
                                 totalFailed |-> x.failureCount,
                                 totalRetriesMade |-> S.totalRetriesMade]
                           ELSE [completedCount |-> S.completedCount,
                                 totalCount |-> totalUrlsToProcess,
                                 totalSuccess |-> NoStat, totalFailed |-> NoStat,
                                 totalRetriesMade |-> NoStat])]
        ELSE [S EXCEPT !.execs[e].pc = "returned"]

\* the code after the retry loop when a failure leaves no entry in failedTasks
Finalize_NoFailureEntry(S, e) ==
    LET x  == S.execs[e]
        S1 == [S EXCEPT !.completedCount = @ + 1,
                        !.execs[e].successCount = Len(S.successfulResults),
                        !.execs[e].failureCount = Len(S.failedTasks)]
    IN  IF x.lastError # NoError
        THEN IF x.lastError.message # "Operation aborted"
             THEN IF onError
                  THEN [S1 EXCEPT !.execs[e].pc = "onError",
                                  !.onErrorCalls = Append(@,
                                      [error |-> x.lastError, url |-> x.url,
                                       attempt |-> IF engine = "enhanced"
                                                   THEN x.attempts ELSE NoAttempt])]
                  ELSE ProgressPart(S1, e)
             ELSE ProgressPart(S1, e)
        ELSE IF x.hasResult
             THEN ProgressPart([S1 EXCEPT !.execs[e].successCount = @ + 1,
                                          !.successfulResults = @ \o x.taskResult], e)
             ELSE ProgressPart(S1, e)

\* the code after the retry loop, up to the first await
Finalize(S, e) ==
    LET x  == S.execs[e]
        S1 == [S EXCEPT !.completedCount = @ + 1,
                        !.execs[e].successCount = Len(S.successfulResults),
                        !.execs[e].failureCount = Len(S.failedTasks)]
    IN  IF x.lastError # NoError
        THEN IF x.lastError.message # "Operation aborted"
             THEN LET S2 == [S1 EXCEPT
                                !.failedTasks = Append(@, [url |-> x.url, error |-> x.lastError]),
                                !.execs[e].failureCount = @ + 1]
                  IN  IF onError
                      THEN [S2 EXCEPT !.execs[e].pc = "onError",
                                      !.onErrorCalls = Append(@,
                                          [error |-> x.lastError, url |-> x.url,
                                           attempt |-> IF S.engine = "enhanced"
                                                       THEN x.attempts ELSE NoAttempt])]
                      ELSE ProgressPart(S2, e)
             ELSE ProgressPart(S1, e)
        ELSE IF x.hasResult
             THEN ProgressPart([S1 EXCEPT !.execs[e].successCount = @ + 1,
                                          !.successfulResults = @ \o x.taskResult], e)
             ELSE ProgressPart(S1, e)

\* a head of the retry loop that checks the signal in the enhanced engine only
LoopHead_BasicIgnoresSignal(S, e) ==
    LET x == S.execs[e]
    IN  IF x.attempts <= maxRetries
        THEN IF aborted /\ S.engine = "enhanced"
             THEN Finalize(
                    [logExec(S, e, "WARN", "Operation aborted", x.attempts + 1)
                        EXCEPT !.execs[e].lastError = OperationAborted,
                               !.execs[e].outcome = "cancelled",
                               !.abortSeen = TRUE], e)
             ELSE [S EXCEPT !.execs[e].pc = "inTask",
                            !.execs[e].calls = @ + 1]
        ELSE Finalize(S, e)

\* the head of "while (attempts <= maxRetries)": the check of the signal and
\* the invocation of the task function
LoopHead(S, e) ==
    LET x == S.execs[e]
    IN  IF x.attempts <= maxRetries
        THEN IF aborted
             THEN Finalize(
                    [logExec(S, e, "WARN", "Operation aborted", x.attempts + 1)
                        EXCEPT !.execs[e].lastError = OperationAborted,
                               !.execs[e].outcome = "cancelled",
                               !.abortSeen = TRUE], e)
             ELSE [S EXCEPT !.execs[e].pc = "inTask",
                            !.execs[e].calls = @ + 1]
        ELSE Finalize(S, e)

\* a catch block that waits for the timer whatever the delay is
CatchTaskError_AlwaysSleeps(S, e, err) ==
    LET x == S.execs[e]
        currentAttempt == x.attempts + 1
        attempts == x.attempts + 1
        S1 == [S EXCEPT !.execs[e].lastError = err,
                        !.execs[e].attempts = attempts]
    IN  IF IsRetryable(err) /\ attempts <= maxRetries
        THEN LET S2 == logExec([S1 EXCEPT !.totalRetriesMade =
                                     IF engine = "enhanced" THEN @ + 1 ELSE @],
                               e, "WARN", "Retryable error", currentAttempt)
                 delay == RetryDelay(attempts)
             IN  [logExec(S2, e, "INFO", "Retrying", currentAttempt)
                    EXCEPT !.execs[e].pc = "delay",
                           !.execs[e].delay = delay]
        ELSE Finalize(
               [logExec(S1, e, "ERROR",
                        IF ~IsRetryable(err) THEN "Non-retryable error"
                                             ELSE "Final attempt failed",
                        currentAttempt)
                  EXCEPT !.execs[e].outcome = "error"], e)

\* the catch block of the retry loop
CatchTaskError(S, e, err) ==
    LET x == S.execs[e]
        currentAttempt == x.attempts + 1
        attempts == x.attempts + 1
        S1 == [S EXCEPT !.execs[e].lastError = err,
                        !.execs[e].attempts = attempts]
    IN  IF IsRetryable(err) /\ attempts <= maxRetries
        THEN LET S2 == logExec([S1 EXCEPT !.totalRetriesMade =
                                     IF S.engine = "enhanced" THEN @ + 1 ELSE @],
                               e, "WARN", "Retryable error", currentAttempt)
                 delay == RetryDelay(attempts)
             IN  IF delay > 0
                 THEN [logExec(S2, e, "INFO", "Retrying", currentAttempt)
                          EXCEPT !.execs[e].pc = "delay",
                                 !.execs[e].delay = delay]
                 ELSE LoopHead(S2, e)
        ELSE Finalize(
               [logExec(S1, e, "ERROR",
                        IF ~IsRetryable(err) THEN "Non-retryable error"
                                             ELSE "Final attempt failed",
                        currentAttempt)
                  EXCEPT !.execs[e].outcome = "error"], e)

\* the call of executeTaskWithRetries(url), up to its first await
executeTaskWithRetries(S, url, owner) ==
    LET e  == Len(S.execs) + 1
        S1 == [S EXCEPT !.execs = Append(@, NewExec(url, owner))]
    IN  LoopHead(logExec(S1, e, "DEBUG", "Starting task", 1), e)

\* ------------------------------------------------------------ end of a run
NoStats == [totalUrlsProvided |-> NoStat, totalUrlsAttempted |-> NoStat,
            totalSuccess |-> NoStat, totalFailed |-> NoStat,
            totalRetriesMade |-> NoStat]

\* statistics whose totalFailed counts the items that ended with a task
\* error
finalStats_CountsErrors(S) ==
    IF engine = "enhanced"
    THEN [totalUrlsProvided |-> initialUrlCount,
          totalUrlsAttempted |-> totalUrlsToProcess,
          totalSuccess |-> S.completedCount - Len(S.failedTasks),
          totalFailed |-> Cardinality({e \in DOMAIN S.execs : S.execs[e].outcome = "error"}),
          totalRetriesMade |-> S.totalRetriesMade]
    ELSE NoStats

\* const finalStats: RunStats = {...}; the basic engine returns no statistics
finalStats(S) ==
    IF S.engine = "enhanced"
    THEN [totalUrlsProvided |-> initialUrlCount,
          totalUrlsAttempted |-> totalUrlsToProcess,
          totalSuccess |-> S.completedCount - Len(S.failedTasks),
          totalFailed |-> Len(S.failedTasks),
          totalRetriesMade |-> S.totalRetriesMade]
    ELSE NoStats

\* a cancelled run that returns fresh empty lists, as the abort before the
\* start does, instead of what was collected
FinishRun_DropsPartial(S) ==
    [S EXCEPT !.pc = "done",
              !.result = [status |-> "resolved",
                          successfulResults |-> IF aborted THEN <<>> ELSE S.successfulResults,
                          failedTasks |-> IF aborted THEN <<>> ELSE S.failedTasks,
                          stats |-> NoStats]]

\* finalStats, the last log entry and the return statement.  The returned
\* logHistory is the logHistory array itself.
FinishRun(S) ==
    LET S1 == IF aborted
              THEN log(S, "WARN", "Concurrent Processing Aborted")
              ELSE log(S, "INFO", "Finished Concurrent Processing")
    IN  [S1 EXCEPT !.pc = "done",
                   !.result = [status |-> "resolved",
                               successfulResults |-> S.successfulResults,
                               failedTasks |-> S.failedTasks,
                               stats |-> finalStats(S)]]

\* an abort before the start that returns an empty failedTasks list
AbortBeforeStart_NoEntry(S) ==
    [log(S, "WARN", "Operation aborted before starting")
        EXCEPT !.pc = "done",
               !.result = [status |-> "resolved",
                           successfulResults |-> <<>>,
                           failedTasks |-> <<>>,
                           stats |-> IF engine = "enhanced"
                                     THEN [totalUrlsProvided |-> initialUrlCount,
                                           totalUrlsAttempted |-> 0,
                                           totalSuccess |-> 0, totalFailed |-> 0,
                                           totalRetriesMade |-> 0]
                                     ELSE NoStats]]

\* "if (signal?.aborted) { ... return ... }" before any scheduling
AbortBeforeStart(S) ==
    [log(S, "WARN", "Operation aborted before starting")
        EXCEPT !.pc = "done",
               !.result = [status |-> "resolved",
                           successfulResults |-> <<>>,
                           failedTasks |-> <<[url |-> "N/A", error |-> AbortedBeforeStart]>>,
                           stats |-> IF S.engine = "enhanced"
                                     THEN [totalUrlsProvided |-> initialUrlCount,
                                           totalUrlsAttempted |-> 0,
                                           totalSuccess |-> 0, totalFailed |-> 0,
                                           totalRetriesMade |-> 0]
                                     ELSE NoStats]]

\* ---------------------------------------------------------- threads mode
WorkerExit(S, w, why) ==
    logWorker([S EXCEPT !.workers[w].alive = FALSE, !.workers[w].exit = why],
              w, "DEBUG", "Worker finished")

\* a worker loop that pops the next item without looking at the signal
WorkerLoop_IgnoresSignal(S, w) ==
    IF Len(S.urlQueue) > 0
    THEN LET url == Head(S.urlQueue)
             S1  == [S EXCEPT !.urlQueue = Tail(@)]
         IN  IF url = ""
             THEN WorkerExit(S1, w, "falsy item")
             ELSE executeTaskWithRetries(
                    [logWorker(S1, w, "DEBUG", "Worker processing URL")
                        EXCEPT !.workers[w].exec = Len(S1.execs) + 1],
                    url, w)
    ELSE WorkerExit(S, w, "queue empty")

\* one iteration of "while (urlQueue.length > 0)" of startWorker, up to the
\* await of executeTaskWithRetries, or the exit of the worker
WorkerLoop(S, w) ==
    IF Len(S.urlQueue) > 0
    THEN IF aborted
         THEN WorkerExit([logWorker(S, w, "DEBUG", "Worker aborting")
                             EXCEPT !.abortSeen = TRUE], w, "aborted")
         ELSE LET url == Head(S.urlQueue)
                  S1  == [S EXCEPT !.urlQueue = Tail(@)]
              IN  IF url = ""          \* if (!url) break;
                  THEN WorkerExit(S1, w, "falsy item")
                  ELSE executeTaskWithRetries(
                         [logWorker(S1, w, "DEBUG", "Worker processing URL")
                             EXCEPT !.workers[w].exec = Len(S1.execs) + 1],
                         url, w)
    ELSE WorkerExit(S, w, "queue empty")

\* the call startWorker(workerId), up to its first await
startWorker(S, workerId) ==
    WorkerLoop(logWorker([S EXCEPT !.workers =
                                 Append(@, [alive |-> TRUE, exec |-> 0, log |-> <<>>,
                                            exit |-> "none"])],
                         workerId, "DEBUG", "Worker starting"), workerId)

\* a worker per item, whatever maxConcurrency is
actualWorkersToLaunch_PerItem == totalUrlsToProcess

actualWorkersToLaunch == Min(maxConcurrency, totalUrlsToProcess)

\* for (let i = 0; i < actualWorkersToLaunch; i++) workerPromises.push(startWorker(i + 1))
RECURSIVE LaunchWorkers(_, _, _)
LaunchWorkers(S, w, n) ==
    IF w > n THEN S ELSE LaunchWorkers(startWorker(S, w), w + 1, n)

\* --------------------------------------------------------- portions mode
\* chunk.map(url => executeTaskWithRetries(url))
RECURSIVE MapChunk(_, _)
MapChunk(S, chunk) ==
    IF chunk = <<>> THEN S
    ELSE MapChunk(executeTaskWithRetries(S, Head(chunk), S.i), Tail(chunk))

\* Array.prototype.slice(start, end): a negative index counts from the end
\* of the array, every index is clamped to 0..length, and the result is
\* empty when the end is not after the start.
SliceIndex(len, k) == IF k < 0 THEN (IF len + k < 0 THEN 0 ELSE len + k)
                      ELSE Min(k, len)
Slice(s, start, end) ==
    SubSeq(s, SliceIndex(Len(s), start) + 1, SliceIndex(Len(s), end))

\* urlsToProcess.slice(i, i + maxConcurrency)
ChunkAt(idx) == Slice(urlsToProcess, idx, idx + maxConcurrency)

\* the head of the chunk loop: the test of i, the check of the signal and the
\* dispatch of one chunk, up to "await Promise.all(promises)"
ChunkLoop(S) ==
    IF S.i < totalUrlsToProcess
    THEN IF aborted
         THEN FinishRun([log(S, "WARN", "Operation aborted before processing chunk")
                            EXCEPT !.abortSeen = TRUE])
         ELSE [MapChunk(log(S, "INFO", "Processing chunk"),
                        ChunkAt(S.i)) EXCEPT !.pc = "chunk"]
    ELSE FinishRun(S)

\* the executions of the chunk the run is waiting for
ChunkExecs == {e \in DOMAIN execs : execs[e].owner = i}

\* ---------------------------------------------------------------- segments
\* the segments of the actions, as functions of the state they start in
AfterCall(S) ==
    LET S1 == log(log(S, "INFO", "Starting Concurrent Processing"),
                  "INFO", "Processing URLs")
    IN  IF aborted
        THEN AbortBeforeStart(S1)
        ELSE IF mode = "threads"
             THEN [LaunchWorkers(
                      log([S1 EXCEPT !.urlQueue = urlsToProcess],
                          "INFO", "Launching workers"),
                      1, actualWorkersToLaunch)
                   EXCEPT !.pc = "workers"]
             ELSE ChunkLoop([S1 EXCEPT !.i = 0])

AfterTaskResolves(S, e, out) ==
    Finalize(logExec([S EXCEPT !.execs[e].taskResult = out,
                               !.execs[e].hasResult = TRUE,
                               !.execs[e].lastError = NoError,
                               !.execs[e].outcome = "success"],
                     e, "SUCCESS", "Task completed successfully",
                     S.execs[e].attempts + 1), e)

AfterDelayRejected(S, e) ==
    Finalize(logExec([S EXCEPT !.execs[e].lastError = AbortedDuringDelay,
                               !.execs[e].outcome = "cancelled"],
                     e, "WARN", "Retry cancelled by abort signal",
                     S.execs[e].attempts), e)

AfterOnError(S, e, threw) ==
    ProgressPart([S EXCEPT !.callbackThrew = @ \/ threw], e)

AfterOnProgress(S, e, threw) ==
    [S EXCEPT !.callbackThrew = @ \/ threw, !.execs[e].pc = "returned"]

AfterWorkersJoin(S) == FinishRun(log(S, "INFO", "All workers finished"))

AfterChunkJoin(S) ==
    ChunkLoop([log(S, "INFO", "Finished chunk") EXCEPT !.i = @ + maxConcurrency])

\* ------------------------------------------------------------------ actions
\* a call that launches maxConcurrency workers, however few items there are
Start_LaunchesMaxConcurrency ==
    /\ pc = "start"
    /\ LET S1 == log(log(Cur, "INFO", "Starting Concurrent Processing"),
                     "INFO", "Processing URLs")
       IN  IF aborted
           THEN Commit(AbortBeforeStart(S1))
           ELSE IF mode = "threads"
                THEN Commit([LaunchWorkers(
                                log([S1 EXCEPT !.urlQueue = urlsToProcess],
                                    "INFO", "Launching workers"),
                                1, maxConcurrency)
                             EXCEPT !.pc = "workers"])
                ELSE Commit(ChunkLoop([S1 EXCEPT !.i = 0]))
    /\ UNCHANGED <<config, aborted>>

\* the call of processUrlsConcurrentlyInTabs, up to its first await
Start ==
    /\ pc = "start"
    /\ Commit(AfterCall(Cur))
    /\ UNCHANGED <<config, aborted>>

\* a task result that is put in front of what was collected
TaskResolves_Prepends(e, out) ==
    /\ pc \in {"workers", "chunk"}
    /\ execs[e].pc = "inTask"
    /\ Commit([Finalize(
          logExec([Cur EXCEPT !.execs[e].taskResult = out,
                              !.execs[e].hasResult = TRUE,
                              !.execs[e].lastError = NoError,
                              !.execs[e].outcome = "success"],
                  e, "SUCCESS", "Task completed successfully",
                  execs[e].attempts + 1), e)
            EXCEPT !.successfulResults = out \o successfulResults])
    /\ UNCHANGED <<config, aborted>>

\* the task function resolves with a list of items
TaskResolves(e, out) ==
    /\ pc \in {"workers", "chunk"}
    /\ execs[e].pc = "inTask"
    /\ Commit(AfterTaskResolves(Cur, e, out))
    /\ UNCHANGED <<config, aborted>>

\* the task function throws or rejects
TaskRejects(e, err) ==
    /\ pc \in {"workers", "chunk"}
    /\ execs[e].pc = "inTask"
    /\ Commit(CatchTaskError(Cur, e, err))
    /\ UNCHANGED <<config, aborted>>

\* the timer of the retry delay fires: the next iteration of the retry loop
TimerFires(e) ==
    /\ pc \in {"workers", "chunk"}
    /\ execs[e].pc = "delay"
    /\ Commit(LoopHead(Cur, e))
    /\ UNCHANGED <<config, aborted>>

\* a signal that also ends every invocation in flight as cancelled
Abort_InterruptsTasks ==
    /\ ~aborted
    /\ pc # "done"
    /\ aborted' = TRUE
    /\ execs' = [e \in DOMAIN execs |->
                    IF execs[e].pc = "delay"
                    THEN [execs[e] EXCEPT !.pc = "delayAborted"]
                    ELSE IF execs[e].pc = "inTask"
                    THEN [execs[e] EXCEPT !.pc = "returned",
                                          !.lastError = OperationAborted,
                                          !.outcome = "cancelled"]
                    ELSE execs[e]]
    /\ UNCHANGED <<config, pc, i, urlQueue, workers, completedCount,
                   totalRetriesMade, successfulResults, failedTasks, logHistory,
                   onErrorCalls, onProgressCalls, result, abortSeen, callbackThrew>>

\* the signal is set.  The abort event runs the abortHandler of every delay
\* that registered one: its timer is cleared and its promise rejected.
Abort ==
    /\ ~aborted
    /\ pc # "done"
    /\ aborted' = TRUE
    /\ execs' = [e \in DOMAIN execs |->
                    IF execs[e].pc = "delay"
                    THEN [execs[e] EXCEPT !.pc = "delayAborted"]
                    ELSE execs[e]]
    /\ UNCHANGED <<config, pc, i, urlQueue, workers, completedCount,
                   totalRetriesMade, successfulResults, failedTasks, logHistory,
                   onErrorCalls, onProgressCalls, result, abortSeen, callbackThrew>>

\* the catch block around the delay, after the delay's promise was rejected
DelayRejected(e) ==
    /\ pc \in {"workers", "chunk"}
    /\ execs[e].pc = "delayAborted"
    /\ Commit(AfterDelayRejected(Cur, e))
    /\ UNCHANGED <<config, aborted>>

\* onError awaited without its try/catch: a throw leaves
\* executeTaskWithRetries rejected
OnErrorSettles_Uncaught(e, threw) ==
    /\ pc \in {"workers", "chunk"}
    /\ execs[e].pc = "onError"
    /\ Commit(IF threw
              THEN [Cur EXCEPT !.callbackThrew = TRUE, !.execs[e].pc = "rejected"]
              ELSE ProgressPart(Cur, e))
    /\ UNCHANGED <<config, aborted>>

\* onError returns, throws or rejects; the throw is caught
OnErrorSettles(e, threw) ==
    /\ pc \in {"workers", "chunk"}
    /\ execs[e].pc = "onError"
    /\ Commit(AfterOnError(Cur, e, threw))
    /\ UNCHANGED <<config, aborted>>

\* onProgress returns, throws or rejects; the throw is caught
OnProgressSettles(e, threw) ==
    /\ pc \in {"workers", "chunk"}
    /\ execs[e].pc = "onProgress"
    /\ Commit(AfterOnProgress(Cur, e, threw))
    /\ UNCHANGED <<config, aborted>>

\* a worker resumes after "await executeTaskWithRetries(url)"
WorkerStep(w) ==
    /\ pc = "workers"
    /\ workers[w].alive
    /\ execs[workers[w].exec].pc = "returned"
    /\ Commit(WorkerLoop(Cur, w))
    /\ UNCHANGED <<config, aborted>>

\* a join of the workers that resumes while workers are still running
WorkersJoin_NoWait ==
    /\ pc = "workers"
    /\ Commit(FinishRun(log(Cur, "INFO", "All workers finished")))
    /\ UNCHANGED <<config, aborted>>

\* "await Promise.all(workerPromises)" resumes
WorkersJoin ==
    /\ pc = "workers"
    /\ \A w \in DOMAIN workers : ~workers[w].alive
    /\ Commit(AfterWorkersJoin(Cur))
    /\ UNCHANGED <<config, aborted>>

\* a chunk loop that goes on without awaiting the promises of the chunk
ChunkJoin_NoWait ==
    /\ pc = "chunk"
    /\ Commit(ChunkLoop([log(Cur, "INFO", "Finished chunk")
                            EXCEPT !.i = @ + maxConcurrency]))
    /\ UNCHANGED <<config, aborted>>

\* "await Promise.all(promises)" of a chunk resumes
ChunkJoin ==
    /\ pc = "chunk"
    /\ \A e \in ChunkExecs : execs[e].pc = "returned"
    /\ Commit(AfterChunkJoin(Cur))
    /\ UNCHANGED <<config, aborted>>

\* ------------------------------------------------------------ specification
\* the state before the call
InitRun ==
    /\ aborted = FALSE
    /\ pc = "start"
    /\ i = 0
    /\ urlQueue = <<>>
    /\ workers = <<>>
    /\ execs = <<>>
    /\ completedCount = 0
    /\ totalRetriesMade = 0
    /\ successfulResults = <<>>
    /\ failedTasks = <<>>
    /\ logHistory = <<>>
    /\ onErrorCalls = <<>>
    /\ onProgressCalls = <<>>
    /\ result = NoResult
    /\ abortSeen = FALSE
    /\ callbackThrew = FALSE

\* the arguments of the call: either engine, either mode, every list of at
\* most MaxUrls items, the default isRetryable.  retryDelayMs is read only
\* when a retry is made, so it is left at its default when maxRetries = 0.
InitArgs ==
    /\ engine \in {"enhanced", "basic"}
    /\ mode \in {"threads", "portions"}
    /\ urls \in SeqsUpTo(UrlValues, MaxUrls)
    /\ Canonical(mode, urls)
    /\ maxConcurrency \in 1..MaxConc
    /\ maxRetries \in 0..MaxRetriesBound
    /\ retryDelayMs \in DelayOptions
    /\ maxRetries = 0 => retryDelayMs = DefaultDelay
    /\ onProgress \in BOOLEAN
    /\ onError \in BOOLEAN
    /\ isRetryable = IF engine = "basic" THEN "all" ELSE "default"
    /\ Len(urls) * (maxRetries + 1) <= MaxAttempts
    /\ Min(maxConcurrency, Len(urlsToProcess))
         * ((IF onProgress THEN 1 ELSE 0) + (IF onError THEN 1 ELSE 0))
       <= MaxCallbacks

Init == InitArgs /\ InitRun

Next ==
    \/ Start
    \/ Abort
    \/ \E e \in DOMAIN execs : \E out \in TaskOutputs(execs[e].url) : TaskResolves(e, out)
    \/ \E e \in DOMAIN execs : \E err \in TaskErrors : TaskRejects(e, err)
    \/ \E e \in DOMAIN execs : TimerFires(e)
    \/ \E e \in DOMAIN execs : DelayRejected(e)
    \/ \E e \in DOMAIN execs : \E threw \in BOOLEAN : OnErrorSettles(e, threw)
    \/ \E e \in DOMAIN execs : \E threw \in BOOLEAN : OnProgressSettles(e, threw)
    \/ \E w \in DOMAIN workers : WorkerStep(w)
    \/ WorkersJoin
    \/ ChunkJoin

Spec == Init /\ [][Next]_vars

\* the calls of the enhanced engine with an isRetryable that accepts every
\* error, which is what the basic engine does with every error
InitRetryAllArgs ==
    /\ engine = "enhanced"
    /\ mode \in {"threads", "portions"}
    /\ urls \in SeqsUpTo(UrlValues, MaxUrls)
    /\ Canonical(mode, urls)
    /\ maxConcurrency \in 1..MaxConc
    /\ maxRetries \in 0..MaxRetriesBound
    /\ retryDelayMs \in DelayOptions
    /\ maxRetries = 0 => retryDelayMs = DefaultDelay
    /\ onProgress \in BOOLEAN
    /\ onError \in BOOLEAN
    /\ isRetryable = "all"
    /\ Len(urls) * (maxRetries + 1) <= MaxAttempts
    /\ Min(maxConcurrency, Len(urlsToProcess))
         * ((IF onProgress THEN 1 ELSE 0) + (IF onError THEN 1 ELSE 0))
       <= MaxCallbacks

InitRetryAll == InitRetryAllArgs /\ InitRun

SpecRetryAll == InitRetryAll /\ [][Next]_vars

\* The steps the runtime takes on its own: the call, every continuation that
\* is ready, every timer, and the settling of every task invocation and
\* callback.  Only the setting of the signal is left to the caller.
Settle ==
    \/ Start
    \/ \E e \in DOMAIN execs : \E out \in TaskOutputs(execs[e].url) : TaskResolves(e, out)
    \/ \E e \in DOMAIN execs : \E err \in TaskErrors : TaskRejects(e, err)
    \/ \E e \in DOMAIN execs : TimerFires(e)
    \/ \E e \in DOMAIN execs : DelayRejected(e)
    \/ \E e \in DOMAIN execs : \E threw \in BOOLEAN : OnErrorSettles(e, threw)
    \/ \E e \in DOMAIN execs : \E threw \in BOOLEAN : OnProgressSettles(e, threw)
    \/ \E w \in DOMAIN workers : WorkerStep(w)
    \/ WorkersJoin
    \/ ChunkJoin

\* the calls of the fair specification: distinct non-empty items and at most
\* MaxAttemptsFair task invocations in all
InitFair ==
    /\ Init
    /\ Len(uniqueUrls) = Len(urls)
    /\ "" \notin Range(urls)
    /\ Len(urls) * (maxRetries + 1) <= MaxAttemptsFair

\* the engine under an event loop that runs what is ready and with tasks,
\* callbacks and timers that settle
FairSpec == InitFair /\ [][Next]_vars /\ WF_vars(Settle)

\* ------------------------------------- calls that break maxConcurrency >= 1
\* maxConcurrency is a number that nothing validates: 0 and a negative value
InvalidConcurrency == {0 - 1, 0}

InitInvalidArgs ==
    /\ engine \in {"enhanced", "basic"}
    /\ mode \in {"threads", "portions"}
    /\ urls \in SeqsUpTo(UrlValues, MaxUrls)
    /\ Canonical(mode, urls)
    /\ maxConcurrency \in InvalidConcurrency
    /\ maxRetries \in 0..MaxRetriesBound
    /\ retryDelayMs \in DelayOptions
    /\ maxRetries = 0 => retryDelayMs = DefaultDelay
    /\ onProgress \in BOOLEAN
    /\ onError \in BOOLEAN
    /\ isRetryable = IF engine = "basic" THEN "all" ELSE "default"
    /\ Len(urls) * (maxRetries + 1) <= MaxAttempts

InitInvalid == InitInvalidArgs /\ InitRun

\* With maxConcurrency <= 0 the step "i += maxConcurrency" never brings i to
\* the end of the list.  ChunkJoin is followed for MaxSpins iterations of
\* that loop (i goes down by one, or the log grows by two entries, in each).
ChunkJoinSpin ==
    /\ i > 0 - MaxSpins
    /\ Len(logHistory) < 3 + 2 * MaxSpins
    /\ ChunkJoin

\* No worker is started when maxConcurrency <= 0, so WorkerStep has nothing
\* to resume.
NextInvalid ==
    \/ Start
    \/ Abort
    \/ \E e \in DOMAIN execs : \E out \in TaskOutputs(execs[e].url) : TaskResolves(e, out)
    \/ \E e \in DOMAIN execs : \E err \in TaskErrors : TaskRejects(e, err)
    \/ \E e \in DOMAIN execs : TimerFires(e)
    \/ \E e \in DOMAIN execs : DelayRejected(e)
    \/ \E e \in DOMAIN execs : \E threw \in BOOLEAN : OnErrorSettles(e, threw)
    \/ \E e \in DOMAIN execs : \E threw \in BOOLEAN : OnProgressSettles(e, threw)
    \/ WorkersJoin
    \/ ChunkJoinSpin

SpecInvalid == InitInvalid /\ [][NextInvalid]_vars

\* ------------------------------- scrapeProductLinks: the post-processing
\* The caller of the engine in product.actions.ts: it runs the enhanced
\* engine in threads mode over uniqueLinks with scrapeSingleProduct, which
\* returns one product carrying the link as its url, and then deduplicates
\* and sorts results.successfulResults.  Here urls holds links,
\* successfulResults the products in completion order, and result the value
\* scrapeProductLinks returns.
LinkValues == UrlValues \cup {"c"}
\* what a page can give as the article number: nothing, "none", a number, a
\* number another page has as well, and a string that is also a link
ArticleValues == {"", "none", "A1", "a"}

uniqueLinks == Dedup(urls)

\* the lists of products a run over links can return: at most one product
\* for every distinct non-empty link, in any order of completion
ProductLists(links) ==
    LET L == Range(links) \ {""}
    IN  UNION {{[k \in 1..n |-> [url |-> us[k], articleNumber |-> an[k]]] :
                    us \in {f \in [1..n -> L] : \A x, y \in 1..n : f[x] = f[y] => x = y},
                    an \in [1..n -> ArticleValues]} : n \in 0..Cardinality(L)}

\* Array.prototype.indexOf
indexOf(s, v) == IF v \in Range(s) THEN FirstIndex(s, v) - 1 ELSE 0 - 1

\* a Map as the list of its entries in insertion order
MapHas(m, key) == \E k \in DOMAIN m : m[k].key = key
\* Map.prototype.set: a new key goes to the end, an old key keeps its place
MapSet(m, key, value) ==
    IF MapHas(m, key)
    THEN [k \in DOMAIN m |-> IF m[k].key = key THEN [key |-> key, value |-> value] ELSE m[k]]
    ELSE Append(m, [key |-> key, value |-> value])
MapValues(m) == [k \in DOMAIN m |-> m[k].value]

\* successfulProducts.forEach(product => ...) on uniqueProductsMap
RECURSIVE uniqueProductsMap(_)
uniqueProductsMap(products) ==
    IF products = <<>> THEN <<>>
    ELSE LET m       == uniqueProductsMap(SubSeq(products, 1, Len(products) - 1))
             product == products[Len(products)]
         IN  IF product.articleNumber # "" /\ product.articleNumber # "none"
                /\ ~MapHas(m, product.articleNumber)
             THEN MapSet(m, product.articleNumber, product)
             ELSE IF product.articleNumber = "" \/ product.articleNumber = "none"
                  THEN MapSet(m, product.url, product)
                  ELSE m

\* Array.prototype.sort with the comparator
\* (a, b) => uniqueLinks.indexOf(a.url) - uniqueLinks.indexOf(b.url); the
\* sort is stable
RECURSIVE InsertByLink(_, _)
InsertByLink(sorted, product) ==
    IF sorted = <<>> THEN <<product>>
    ELSE LET last == sorted[Len(sorted)]
         IN  IF indexOf(uniqueLinks, last.url) - indexOf(uniqueLinks, product.url) <= 0
             THEN Append(sorted, product)
             ELSE Append(InsertByLink(SubSeq(sorted, 1, Len(sorted) - 1), product), last)

RECURSIVE SortByLink(_)
SortByLink(products) ==
    IF products = <<>> THEN <<>>
    ELSE InsertByLink(SortByLink(SubSeq(products, 1, Len(products) - 1)),
                      products[Len(products)])

\* a post-processing that leaves the products in the order of the Map
finalDeduplicatedProducts_Unsorted == MapValues(uniqueProductsMap(result.successfulResults))

finalDeduplicatedProducts ==
    LET deduplicated == MapValues(uniqueProductsMap(result.successfulResults))
    IN  IF Len(uniqueLinks) > 0 THEN SortByLink(deduplicated) ELSE deduplicated

\* the code of scrapeProductLinks after the engine has returned
scrapeProductLinks ==
    /\ pc = "done"
    /\ pc' = "scraped"
    /\ result' = [products |-> finalDeduplicatedProducts,
                  failedTasks |-> result.failedTasks,
                  stats |-> result.stats]
    /\ UNCHANGED <<config, aborted, i, shared, abortSeen, callbackThrew>>

\* the state in which the engine has returned to scrapeProductLinks
InitScrape ==
    /\ engine = "enhanced"
    /\ mode = "threads"
    /\ urls \in SeqsUpTo(LinkValues, MaxLinks)
    /\ maxConcurrency \in 1..MaxConc
    /\ maxRetries = 2
    /\ retryDelayMs = [kind |-> "function",
                       value |-> [k \in 1..MaxRetriesBound |-> k * 1500]]
    /\ onProgress = TRUE
    /\ onError = TRUE
    /\ isRetryable = "default"
    /\ aborted = FALSE
    /\ pc = "done"
    /\ i = 0
    /\ urlQueue = <<>>
    /\ workers = <<>>
    /\ execs = <<>>
    /\ successfulResults \in ProductLists(urls)
    /\ completedCount = Len(successfulResults)
    /\ totalRetriesMade = 0
    /\ failedTasks = <<>>
    /\ logHistory = <<>>
    /\ onErrorCalls = <<>>
    /\ onProgressCalls = <<>>
    /\ result = [status |-> "resolved",
                 successfulResults |-> successfulResults,
                 failedTasks |-> failedTasks,
                 stats |-> [totalUrlsProvided |-> Len(uniqueLinks),
                            totalUrlsAttempted |-> Len(uniqueLinks),
                            totalSuccess |-> completedCount,
                            totalFailed |-> 0,
                            totalRetriesMade |-> 0]]
    /\ abortSeen = FALSE
    /\ callbackThrew = FALSE

NextScrape == scrapeProductLinks

SpecScrape == InitScrape /\ [][NextScrape]_vars


\* =================================================================== claims
\* the task invocations that have started and not yet settled
InFlight == Cardinality({e \in DOMAIN execs : execs[e].pc = "inTask"})

\* the executions of executeTaskWithRetries for the item u
ExecsOf(u) == {e \in DOMAIN execs : execs[e].url = u}
\* the executions whose retry loop was left in the way o
ExecsEnded(o) == {e \in DOMAIN execs : execs[e].outcome = o}
\* the items of the successes that come from the item u
ItemsFrom(res, u) == {k \in DOMAIN res : res[k].src = u}

RetriesOfExec(e) == IF execs[e].calls > 1 THEN execs[e].calls - 1 ELSE 0
SumOfRetries == SumSeq([e \in DOMAIN execs |-> RetriesOfExec(e)])
SumOfOutputs(E) ==
    SumSeq([e \in DOMAIN execs |-> IF e \in E THEN Len(execs[e].taskResult) ELSE 0])

Returned == pc = "done"
\* the run returned and the signal was never set
ReturnedUncancelled == pc = "done" /\ ~aborted

\* C1: in both modes and both engines, in every reachable state the number
\* of task invocations started and not yet settled is at most maxConcurrency.
C1_BoundedConcurrency == InFlight <= maxConcurrency

\* C1 witness: maxConcurrency invocations are in flight while further items
\* wait in the queue or in a later chunk.
C1_Witness ==
    /\ InFlight = maxConcurrency
    /\ \/ mode = "threads" /\ Len(urlQueue) > 0
       \/ mode = "portions" /\ pc = "chunk" /\ i + maxConcurrency < totalUrlsToProcess

\* C2: when the signal is never set, the returned stats satisfy
\* totalUrlsAttempted = totalSuccess + totalFailed, for every input list.
C2_CompletionCount ==
    (ReturnedUncancelled /\ engine = "enhanced") =>
        result.stats.totalUrlsAttempted =
            result.stats.totalSuccess + result.stats.totalFailed

\* C3: every item's task is invoked at most maxRetries + 1 times, and the
\* returned totalRetriesMade is the sum over the items of
\* max(0, invocations - 1), also when the signal is set during a retry delay.
C3_RetryBound ==
    /\ \A e \in DOMAIN execs : execs[e].calls <= maxRetries + 1
    /\ (Returned /\ engine = "enhanced") =>
           result.stats.totalRetriesMade = SumOfRetries

\* C4, first half: once the engine has read the signal as set, no item that
\* had not begun its first attempt has its task invoked.
C4_NoNewItem ==
    abortSeen =>
        \A e \in DOMAIN execs' :
            (e \notin DOMAIN execs \/ execs[e].calls = 0) => execs'[e].calls = 0

\* C4, second half: the returned result holds the outputs of every item
\* whose task completed successfully and every failure that was recorded
\* (so also those recorded before the signal was set).
C4_PartialResultsKept ==
    Returned =>
        /\ \A u \in UrlValues :
              Cardinality(ItemsFrom(result.successfulResults, u)) =
                  SumOfOutputs(ExecsEnded("success") \cap ExecsOf(u))
        /\ \A k \in DOMAIN failedTasks :
              \E j \in DOMAIN result.failedTasks : result.failedTasks[j] = failedTasks[k]

\* C4: cancellation safety: no new item starts after the signal was seen and
\* the result keeps what was collected.
C4_CancellationSafety == [][C4_NoNewItem]_vars /\ []C4_PartialResultsKept

\* C4 witness: a cancelled run returned; the signal was seen while an item
\* had not started, and an item that was in flight delivered its output.
C4_Witness ==
    /\ Returned /\ abortSeen
    /\ Len(execs) < totalUrlsToProcess
    /\ Len(result.successfulResults) > 0

\* C5: an item whose retrying was ended by cancellation (seen before an
\* attempt, or fired during the retry delay) is never added to failedTasks
\* and never triggers onError.
C5_CancelledNotFailed ==
    \A e \in ExecsEnded("cancelled") :
        /\ \A k \in DOMAIN failedTasks :
              failedTasks[k] # [url |-> execs[e].url, error |-> execs[e].lastError]
        /\ \A k \in DOMAIN onErrorCalls :
              ~(onErrorCalls[k].url = execs[e].url /\ onErrorCalls[k].error = execs[e].lastError)

\* C6: in every returned result totalSuccess is the number of items whose
\* task returned successfully and totalFailed the number of items whose final
\* outcome was a task error; a cancelled item counts in neither.
C6_CountersExcludeCancelled ==
    (Returned /\ engine = "enhanced") =>
        /\ result.stats.totalSuccess = Cardinality(ExecsEnded("success"))
        /\ result.stats.totalFailed = Cardinality(ExecsEnded("error"))

\* C7, step: the step in which a callback settles after a callback threw
\* changes neither list, ends no worker, and leaves the execution where the
\* same step leaves it after a callback that returned.
C7_ThrowChangesNothing ==
    \A e \in DOMAIN execs :
        (execs[e].pc \in {"onError", "onProgress"} /\ execs'[e].pc # execs[e].pc
            /\ callbackThrew') =>
            /\ successfulResults' = successfulResults
            /\ failedTasks' = failedTasks
            /\ workers' = workers
            /\ urlQueue' = urlQueue
            /\ execs'[e].pc \in (IF execs[e].pc = "onError" /\ onProgress
                                 THEN {"onProgress"} ELSE {"returned"})

\* C7, end: a run in which a callback threw still processes every item (in
\* threads mode: of a list without the empty string, see C10).
C7_AllItemsProcessed ==
    (ReturnedUncancelled /\ callbackThrew /\ (mode = "threads" => "" \notin Range(urls))) =>
        /\ Len(execs) = totalUrlsToProcess
        /\ \A e \in DOMAIN execs : execs[e].pc = "returned"

\* C7: a throwing onProgress or onError changes neither failedTasks nor
\* successfulResults and does not stop the run.
C7_NonAbortingCallback == [][C7_ThrowChangesNothing]_vars /\ []C7_AllItemsProcessed

\* C7 witness: a run in which a callback threw returned a failure and a success.
C7_Witness ==
    /\ ReturnedUncancelled /\ callbackThrew
    /\ Len(result.failedTasks) > 0
    /\ Len(result.successfulResults) > 0

\* C8: in threads mode every distinct item of the input is executed once,
\* the successes are those of the distinct items (what the run on the
\* deduplicated list yields), totalUrlsAttempted is the number of distinct
\* items and totalUrlsProvided the length of the input.
C8_DedupIdempotence ==
    (ReturnedUncancelled /\ mode = "threads" /\ engine = "enhanced") =>
        /\ \A u \in Range(urls) : Cardinality(ExecsOf(u)) = 1
        /\ \A u \in UrlValues :
              Cardinality(ItemsFrom(result.successfulResults, u)) =
                  SumOfOutputs(ExecsEnded("success") \cap ExecsOf(u))
        /\ result.stats.totalUrlsAttempted = Cardinality(Range(urls))
        /\ result.stats.totalUrlsProvided = Len(urls)

\* C9: when the signal is never set, every item of the list to process
\* reaches a final outcome, success or failure, before the run returns.
C9_EveryItemFinished ==
    ReturnedUncancelled =>
        /\ Len(execs) = totalUrlsToProcess
        /\ \A k \in DOMAIN execs :
              execs[k].url = urlsToProcess[k] \/ mode = "threads"
        /\ \A u \in Range(urlsToProcess) : ExecsOf(u) # {}
        /\ \A e \in DOMAIN execs : execs[e].outcome \in {"success", "error"}

\* C10: a worker leaves its loop only when the queue is empty or the signal
\* is seen set; popping an item never ends it, whatever string the item is.
C10_WorkerExitsOnlyWhenDone ==
    \A w \in DOMAIN workers : workers[w].exit \in {"none", "queue empty", "aborted"}

\* the entries of the returned logHistory (the union of its projections)
LoggedEntries ==
    Range(logHistory)
        \cup UNION {Range(execs[e].log) : e \in DOMAIN execs}
        \cup UNION {Range(workers[w].log) : w \in DOMAIN workers}
\* the messages with which the engine records a cancellation
CancellationMessages ==
    {"Operation aborted before starting", "Operation aborted",
     "Retry cancelled by abort signal", "Worker aborting",
     "Operation aborted before processing chunk", "Concurrent Processing Aborted"}
\* the errors the engine creates for a cancellation
CancellationErrors == {OperationAborted, AbortedDuringDelay, AbortedBeforeStart}

\* C11: wherever the signal is set (before the start, during a task
\* invocation, during a retry delay, between items or chunks), the call
\* resolves to a result, the cancellation is recorded in logHistory as a
\* WARN/INFO/DEBUG entry, and no failedTasks entry is created for it.
C11_CancellationNeverFails ==
    (Returned /\ aborted) =>
        /\ result.status = "resolved"
        /\ engine = "enhanced" =>
              \E entry \in LoggedEntries :
                  /\ entry.level \in {"WARN", "INFO", "DEBUG"}
                  /\ entry.message \in CancellationMessages
        /\ \A k \in DOMAIN result.failedTasks :
              result.failedTasks[k].error \notin CancellationErrors

\* C12, step: when the signal is already set at the call, the call returns
\* at once: no task invocation, no worker, no callback, empty
\* successfulResults, exactly one synthetic failedTasks entry describing the
\* early abort, and (enhanced engine, the one that has stats) stats that are
\* 0 except totalUrlsProvided, which is the length of the input.
C12_AbortedAtCallStep ==
    (pc = "start" /\ aborted) =>
        /\ pc' = "done"
        /\ execs' = <<>> /\ workers' = <<>>
        /\ onErrorCalls' = <<>> /\ onProgressCalls' = <<>>
        /\ result'.status = "resolved"
        /\ result'.successfulResults = <<>>
        /\ result'.failedTasks = <<[url |-> "N/A", error |-> AbortedBeforeStart]>>
        /\ engine = "enhanced" =>
              result'.stats = [totalUrlsProvided |-> Len(urls),
                               totalUrlsAttempted |-> 0, totalSuccess |-> 0,
                               totalFailed |-> 0, totalRetriesMade |-> 0]

\* C12: a call made with the signal already set does no work and returns
\* the synthetic early-abort result.
C12_AbortedAtCall == [][C12_AbortedAtCallStep]_vars

\* C12 witness: a call with a non-empty list returned the early-abort result
\* without having started anything.
C12_Witness ==
    /\ Returned /\ aborted
    /\ Len(urls) > 0
    /\ execs = <<>> /\ workers = <<>>
    /\ Len(result.failedTasks) = 1
    /\ result.failedTasks[1].error = AbortedBeforeStart

\* C13: a call with maxConcurrency < 1 returns, in either mode, a result
\* with a single synthetic failed item (not the failure of a task) and
\* otherwise empty contents.
C13_InvalidConfigRejected ==
    (Returned /\ maxConcurrency < 1 /\ ~aborted) =>
        /\ result.successfulResults = <<>>
        /\ Len(result.failedTasks) = 1
        /\ result.failedTasks[1].error \notin TaskErrors

\* the items that reached the end of their retry loop (completedCount counts
\* them)
Completed == {e \in DOMAIN execs : execs[e].outcome # "pending"}
\* no item is both the source of a success and a failed task
NoItemInBoth(res) ==
    \A u \in UrlValues :
        ~(ItemsFrom(res.successfulResults, u) # {}
            /\ \E k \in DOMAIN res.failedTasks : res.failedTasks[k].url = u)

\* C14 as stated (scenario D, for any number of distinct items and any
\* maxConcurrency): in threads mode, when the signal is set after the first
\* item has completed, the result contains at least 1 and at most
\* maxConcurrency completed items, and no item is in both lists.  (A run that
\* ends with more than maxConcurrency completed items had one completed when
\* the signal was set: at most maxConcurrency items are started before the
\* first completes.)
C14_AtMostMaxConcurrency ==
    (Returned /\ aborted /\ mode = "threads" /\ Len(uniqueUrls) = Len(urls)
        /\ Cardinality(Completed) >= 1) =>
        /\ Cardinality(Completed) <= maxConcurrency
        /\ NoItemInBoth(result)

\* C14 amended, state part: in threads mode at most maxConcurrency items are
\* started and not completed; at the return every started item is completed
\* and no item is in both lists.
C14_InFlightItems ==
    mode = "threads" =>
        /\ Len(execs) - Cardinality(Completed) <= maxConcurrency
        /\ Returned => (Completed = DOMAIN execs /\ NoItemInBoth(result))

\* C14 amended, step part: once the signal is set no item is started, and a
\* completed item stays completed.
C14_NothingStartsAfterSignal ==
    /\ (aborted /\ mode = "threads") => Len(execs') = Len(execs)
    /\ \A e \in Completed : e \in DOMAIN execs' /\ execs'[e].outcome = execs[e].outcome

\* C14 amended: in threads mode, when the signal is set while c >= 1 items
\* have completed, the result contains at least c and at most
\* c + maxConcurrency completed items (each worker may have one item under
\* way, which is finished; nothing else is started), and no item is in both
\* lists.
C14_CompletedAfterCancel ==
    []C14_InFlightItems /\ [][C14_NothingStartsAfterSignal]_vars

\* C14 witness: a cancelled threads-mode run over distinct items returned
\* with more completed items than maxConcurrency.
C14_Witness ==
    /\ Returned /\ aborted /\ mode = "threads"
    /\ Len(uniqueUrls) = Len(urls)
    /\ Cardinality(Completed) > maxConcurrency
    /\ Completed = DOMAIN execs

\* every task invocation of the run threw an error that isRetryable accepts:
\* every execution ended with such an error (an execution gets past an
\* attempt only through a retryable error)
TaskAlwaysThrowsRetryable ==
    \A e \in DOMAIN execs :
        execs[e].outcome = "error" /\ IsRetryable(execs[e].lastError)

\* C15: when the task always throws a retryable error and the signal is
\* never set, every item is attempted exactly maxRetries + 1 times, every
\* item is in failedTasks exactly once with the error of its last attempt,
\* totalFailed is the number of items and totalRetriesMade is
\* (number of items) * maxRetries.
C15_ExhaustedRetries ==
    (ReturnedUncancelled /\ TaskAlwaysThrowsRetryable) =>
        /\ Len(execs) = totalUrlsToProcess
        /\ \A e \in DOMAIN execs : execs[e].calls = maxRetries + 1
        /\ Len(result.failedTasks) = totalUrlsToProcess
        /\ \A e \in DOMAIN execs :
              \E k \in DOMAIN result.failedTasks :
                  result.failedTasks[k] = [url |-> execs[e].url, error |-> execs[e].lastError]
        /\ engine = "enhanced" =>
              /\ result.stats.totalFailed = totalUrlsToProcess
              /\ result.stats.totalRetriesMade = totalUrlsToProcess * maxRetries

\* the step in which the task invocation of e throws an error that the
\* default isRetryable of the enhanced engine rejects.  lastError holds the
\* error thrown, except when the same step goes on to the next iteration
\* and leaves the loop there as cancelled.
ThrowsNonRetryable(e) ==
    /\ engine = "enhanced" /\ isRetryable = "default"
    /\ execs[e].pc = "inTask"
    /\ execs'[e].attempts = execs[e].attempts + 1
    /\ execs'[e].outcome # "cancelled"
    /\ execs'[e].lastError.name # "TimeoutError"
\* what that step does whatever the error is: the item is final at once (no
\* delay, no further invocation), however many retries remain;
\* totalRetriesMade is not incremented; no other item, no worker and not
\* the queue is touched
FinalAtOnce(e) ==
    /\ execs'[e].pc \in {"onError", "onProgress", "returned"}
    /\ execs'[e].outcome = "error"
    /\ execs'[e].calls = execs[e].calls
    /\ totalRetriesMade' = totalRetriesMade
    /\ \A f \in DOMAIN execs : f # e => execs'[f] = execs[f]
    /\ workers' = workers /\ urlQueue' = urlQueue
    /\ successfulResults' = successfulResults
\* the item is recorded once in failedTasks and onError gets the number of
\* the attempt (1 for an item invoked once)
RecordedAsFailed(e) ==
    /\ failedTasks' = Append(failedTasks,
                             [url |-> execs[e].url, error |-> execs'[e].lastError])
    /\ onError => onErrorCalls' = Append(onErrorCalls,
                                         [error |-> execs'[e].lastError,
                                          url |-> execs[e].url,
                                          attempt |-> execs[e].calls])
\* an item that ended with an error is never invoked again
ErrorIsFinal ==
    \A e \in DOMAIN execs :
        execs[e].outcome = "error" => execs'[e].calls = execs[e].calls

\* C16 as stated, step: every error that isRetryable rejects is final at
\* once, is recorded once in failedTasks and is handed to onError with the
\* attempt count.
C16_NonRetryableStep ==
    \A e \in DOMAIN execs :
        ThrowsNonRetryable(e) => (FinalAtOnce(e) /\ RecordedAsFailed(e))

C16_NonRetryableStepAmended ==
    \A e \in DOMAIN execs :
        ThrowsNonRetryable(e) =>
            /\ FinalAtOnce(e)
            /\ IF execs'[e].lastError.message # "Operation aborted"
               THEN RecordedAsFailed(e)
               ELSE /\ failedTasks' = failedTasks
                    /\ onErrorCalls' = onErrorCalls
                    /\ onProgressCalls' = onProgressCalls

TaskAlwaysReturnsInput ==
    \A e \in DOMAIN execs :
        execs[e].outcome = "success" /\ execs[e].calls = 1 /\ Len(execs[e].taskResult) = 1

\* C17: when the task always succeeds returning [input], for distinct
\* inputs, any maxConcurrency >= 1 and both modes, successfulResults is a
\* permutation of the inputs, failedTasks is empty, totalFailed = 0,
\* totalRetriesMade = 0 and totalSuccess is the number of inputs.
C17_AllSucceed ==
    (ReturnedUncancelled /\ Len(uniqueUrls) = Len(urls) /\ TaskAlwaysReturnsInput) =>
        /\ Len(result.successfulResults) = Len(urls)
        /\ \A u \in Range(urls) :
              Cardinality(ItemsFrom(result.successfulResults, u)) = 1
        /\ result.failedTasks = <<>>
        /\ engine = "enhanced" =>
              /\ result.stats.totalFailed = 0
              /\ result.stats.totalRetriesMade = 0
              /\ result.stats.totalSuccess = Len(urls)

\* the executions that wait in the delay after their k-th failed attempt
\* (attempts = k during the delay)
InDelay == {e \in DOMAIN execs : execs[e].pc \in {"delay", "delayAborted"}}

C19_NoTimerWait ==
    aborted => \A e \in DOMAIN execs : execs[e].pc # "delay"

\* C19, step: an item that is in its retry delay while the signal is set
\* gets no further task invocation.
C19_NoInvocationAfter ==
    \A e \in InDelay : aborted => execs'[e].calls = execs[e].calls

\* C19: the retry delay is responsive to cancellation: the wait ends
\* without waiting for the timer and the item is not invoked again.
C19_DelayResponsive == []C19_NoTimerWait /\ [][C19_NoInvocationAfter]_vars

Finished(o) == {e \in ExecsEnded(o) : execs[e].pc \in {"onError", "onProgress", "returned"}}
\* the invocation of onError that the failure of e calls for: the final
\* error, the item and the number of attempts made (the basic engine passes
\* no attempt count)
OnErrorCallFor(e) ==
    [error |-> execs[e].lastError, url |-> execs[e].url,
     attempt |-> IF engine = "enhanced" THEN execs[e].calls ELSE NoAttempt]

\* C22: when onError is provided it is invoked exactly once for every item
\* whose final outcome is a failure, with the item's final error, the item
\* and the number of attempts made, and never for an item that succeeded or
\* was cancelled.
C22_OnErrorOncePerFailure ==
    onError =>
        /\ \A e \in Finished("error") :
              \E k \in DOMAIN onErrorCalls : onErrorCalls[k] = OnErrorCallFor(e)
        /\ Len(onErrorCalls) = Cardinality(Finished("error"))

\* the executions that are past the point where onProgress is invoked
PastOnProgress == {e \in DOMAIN execs : execs[e].pc \in {"onProgress", "returned"}}

\* C23: when onProgress is provided it is invoked exactly once after the
\* final outcome of every item that succeeded or failed, with the count of
\* completed items, the number of items to process and (enhanced engine) a
\* snapshot of the statistics, and never for a cancelled item.
C23_OnProgressOncePerItem ==
    onProgress =>
        /\ Len(onProgressCalls) =
              Cardinality(PastOnProgress \cap (ExecsEnded("success") \cup ExecsEnded("error")))
        /\ \A k \in DOMAIN onProgressCalls :
              /\ onProgressCalls[k].completedCount \in k..completedCount
              /\ onProgressCalls[k].totalCount = totalUrlsToProcess
              /\ engine = "enhanced" =>
                    onProgressCalls[k].totalRetriesMade \in 0..totalRetriesMade

\* the entries of failedTasks for item u with error err
FailedEntries(u, err) ==
    {k \in DOMAIN failedTasks : failedTasks[k] = [url |-> u, error |-> err]}

\* the executions of item u that ended with the task error err
ExecsFailedWith(u, err) ==
    {e \in ExecsEnded("error") : execs[e].url = u /\ execs[e].lastError = err}

Succeeding == {e \in DOMAIN execs : execs[e].pc = "inTask" /\ execs'[e].outcome = "success"}

C25_AppendOnSuccess ==
    /\ \A e \in Succeeding :
          /\ successfulResults' = successfulResults \o execs'[e].taskResult
          /\ completedCount' = completedCount + 1
          /\ failedTasks' = failedTasks
    /\ Succeeding = {} => successfulResults' = successfulResults

C25_ResultIsCollected ==
    Returned =>
        /\ result.successfulResults = successfulResults
        /\ Len(successfulResults) = SumOfOutputs(ExecsEnded("success"))

InFlightUntouched ==
    (~aborted /\ aborted') =>
        \A e \in DOMAIN execs : execs[e].pc = "inTask" => execs'[e] = execs[e]

\* with the signal set, an invocation that returns has its outputs appended
\* and its item counted as completed and not failed
SuccessAfterSignal ==
    aborted =>
        \A e \in Succeeding :
            /\ successfulResults' = successfulResults \o execs'[e].taskResult
            /\ completedCount' = completedCount + 1
            /\ failedTasks' = failedTasks

\* C26 as stated: an invocation in flight when the signal is set is not
\* interrupted; if it returns its outputs are appended and the item counts
\* as a success, and if it throws a non-retryable error the item is recorded
\* in failedTasks.
C26_InFlightStep ==
    /\ InFlightUntouched
    /\ SuccessAfterSignal
    /\ aborted =>
          \A e \in DOMAIN execs :
              ThrowsNonRetryable(e) =>
                  failedTasks' = Append(failedTasks,
                                        [url |-> execs[e].url, error |-> execs'[e].lastError])

C26_InFlightCompletes == [][C26_InFlightStep]_vars

\* C26 amended: the same, except that a non-retryable error whose message is
\* 'Operation aborted' (the task reporting the cancellation) is not recorded
\* in failedTasks.
C26_InFlightStepAmended ==
    /\ InFlightUntouched
    /\ SuccessAfterSignal
    /\ aborted =>
          \A e \in DOMAIN execs :
              ThrowsNonRetryable(e) =>
                  IF execs'[e].lastError.message # "Operation aborted"
                  THEN failedTasks' = Append(failedTasks,
                                             [url |-> execs[e].url,
                                              error |-> execs'[e].lastError])
                  ELSE failedTasks' = failedTasks

C26_InFlightCompletesAmended == [][C26_InFlightStepAmended]_vars

\* C26 witness: one item was cancelled in its retry delay, and the other,
\* invoked before the signal, threw a non-retryable error after it and is
\* the second entry of failedTasks
C26_Witness ==
    /\ aborted /\ engine = "enhanced" /\ Len(execs) = 2
    /\ \E e \in {1, 2} :
          /\ execs[3 - e].lastError = AbortedDuringDelay
          /\ execs[e].outcome = "error" /\ execs[e].calls = 1
          /\ execs[e].lastError = PlainError
          /\ execs[e].failureCount = 2
          /\ failedTasks[2] = [url |-> execs[e].url, error |-> PlainError]

\* a returned run has no worker alive and no execution unfinished
AllFinished ==
    /\ \A w \in DOMAIN workers : ~workers[w].alive
    /\ \A e \in DOMAIN execs : execs[e].pc = "returned"

\* C27: with maxConcurrency >= 1 and every task invocation and callback
\* settling, the run terminates in both modes, with or without cancellation,
\* and it returns only after every started worker and chunk has finished.
C27_Terminates == <>Returned /\ [](Returned => AllFinished)

\* C27 witness: a run of two items at once that was cancelled while both
\* were in flight and returned after both executions and both workers had
\* finished
C27_Witness ==
    /\ Returned /\ aborted /\ AllFinished
    /\ Len(execs) = 2 /\ Len(workers) = 2
    /\ \A e \in DOMAIN execs : execs[e].calls = 1

\* the number of 'Retrying in ...' entries an execution has logged
RetryingEntries(x) ==
    Cardinality({k \in DOMAIN x.log : x.log[k].message = "Retrying"})

\* in this step the invocation of e throws an error that is to be retried
\* and the computed delay is zero or negative
RetriesWithoutDelay(e) ==
    /\ execs[e].pc = "inTask"
    /\ execs'[e].attempts = execs[e].attempts + 1
    /\ execs'[e].attempts <= maxRetries
    /\ execs'[e].outcome # "error"
    /\ RetryDelay(execs'[e].attempts) <= 0

C28_NoDelayStep ==
    \A e \in DOMAIN execs :
        RetriesWithoutDelay(e) =>
            /\ execs'[e].pc \notin {"delay", "delayAborted"}
            /\ RetryingEntries(execs'[e]) = RetryingEntries(execs[e])
            /\ engine = "enhanced" => totalRetriesMade' = totalRetriesMade + 1
            /\ ~aborted => /\ execs'[e].pc = "inTask"
                           /\ execs'[e].calls = execs[e].calls + 1

\* C28: when the computed retry delay is zero or negative the next attempt
\* follows without the delay wait: the item never enters the sleep, no
\* 'Retrying in ...' entry is logged, and the retry is still counted.
C28_ZeroDelaySkipsWait == [][C28_NoDelayStep]_vars

\* C28 witness: with a delay function that gives -100 for the first retry,
\* an item is in its second invocation without having waited, with one
\* retry counted
C28_Witness ==
    /\ engine = "enhanced" /\ retryDelayMs.kind = "function"
    /\ \E e \in DOMAIN execs :
          /\ execs[e].pc = "inTask" /\ execs[e].attempts = 1 /\ execs[e].calls = 2
          /\ RetryDelay(1) < 0
          /\ RetryingEntries(execs[e]) = 0
    /\ totalRetriesMade = 1

\* the entries that record the outcome of one invocation
IsOutcomeEntry(entry) ==
    \/ entry.level = "SUCCESS"
    \/ entry.level = "WARN" /\ entry.message = "Retryable error"
    \/ entry.level = "ERROR"

OutcomeEntries(x) == SelectSeq(x.log, IsOutcomeEntry)

IsPrefix(s, t) == Len(s) <= Len(t) /\ SubSeq(t, 1, Len(s)) = s

\* the log of every item opens with DEBUG 'Starting task', and it holds one
\* outcome entry, numbered with the attempt, for every invocation that has
\* ended: the invocation in flight, if any, is the only one without
C29_LogPerItem ==
    engine = "enhanced" =>
        \A e \in DOMAIN execs :
            LET x == execs[e]
            IN  /\ Len(x.log) >= 1
                /\ x.log[1] = LogEntry("DEBUG", "Starting task", x.url, 1)
                /\ Len(OutcomeEntries(x)) = x.calls - (IF x.pc = "inTask" THEN 1 ELSE 0)
                /\ \A k \in DOMAIN OutcomeEntries(x) : OutcomeEntries(x)[k].attempt = k
                /\ \A k \in DOMAIN OutcomeEntries(x) :
                      OutcomeEntries(x)[k].level = "WARN" \/ k = Len(OutcomeEntries(x))

\* logHistory only grows at its end
C29_AppendOnly ==
    /\ IsPrefix(logHistory, logHistory')
    /\ \A e \in DOMAIN execs : IsPrefix(execs[e].log, execs'[e].log)
    /\ \A w \in DOMAIN workers : IsPrefix(workers[w].log, workers'[w].log)

\* C29: for every item logHistory holds DEBUG 'Starting task' before any
\* entry of its attempts; every invocation is followed by exactly one
\* outcome entry (SUCCESS, WARN for an error to be retried, ERROR for a final
\* error) before the next attempt starts; entries are never removed or
\* reordered.
C29_LogIsOrdered == []C29_LogPerItem /\ [][C29_AppendOnly]_vars

\* C29 witness: an item that failed once, waited and then succeeded has
\* logged Starting task, the retryable error of attempt 1, the wait and the
\* success of attempt 2, in this order
C29_Witness ==
    /\ engine = "enhanced"
    /\ \E e \in DOMAIN execs :
          /\ execs[e].calls = 2 /\ execs[e].outcome = "success"
          /\ execs[e].log =
                <<LogEntry("DEBUG", "Starting task", execs[e].url, 1),
                  LogEntry("WARN", "Retryable error", execs[e].url, 1),
                  LogEntry("INFO", "Retrying", execs[e].url, 1),
                  LogEntry("SUCCESS", "Task completed successfully", execs[e].url, 2)>>

\* the call found the signal set and returned at once
AbortedAtCall ==
    Returned /\ \E k \in DOMAIN result.failedTasks :
                    result.failedTasks[k].error = AbortedBeforeStart

\* C30: in threads mode exactly min(maxConcurrency, number of deduplicated
\* items) workers are started; with an empty input list no worker is started
\* and the run returns empty successfulResults, empty failedTasks and all
\* counters 0.
C30_WorkersLaunched ==
    (mode = "threads" /\ pc \in {"workers", "done"} /\ ~AbortedAtCall) =>
        /\ Len(workers) = Min(maxConcurrency, Cardinality(Range(urls)))
        /\ urls = <<>> =>
              /\ Len(workers) = 0 /\ Len(execs) = 0
              /\ Returned =>
                    /\ result.successfulResults = <<>>
                    /\ result.failedTasks = <<>>
                    /\ engine = "enhanced" =>
                          result.stats = [totalUrlsProvided |-> 0, totalUrlsAttempted |-> 0,
                                          totalSuccess |-> 0, totalFailed |-> 0,
                                          totalRetriesMade |-> 0]

\* C30 witness: a returned run in threads mode of the same item given twice
\* with maxConcurrency 2, in which one worker was started
C30_Witness ==
    /\ mode = "threads" /\ Returned /\ ~AbortedAtCall
    /\ Len(urls) = 2 /\ urls[1] = urls[2] /\ maxConcurrency = 2
    /\ Len(workers) = 1 /\ Len(execs) = 1

\* the key under which the post-processing files a product
IsValidArticle(product) == product.articleNumber \notin {"", "none"}
ProductKey(product) == IF IsValidArticle(product) THEN product.articleNumber ELSE product.url
Scraped == pc = "scraped"

\* C31: the product list scrapeProductLinks returns has no two products with
\* the same valid articleNumber, keeps every product of successfulResults
\* whose key no other product has (and one product for every key), and is
\* ordered by the index of the products' urls in the deduplicated link list.
C31_DeduplicatedAndOrdered ==
    Scraped =>
        LET out == result.products
            given == successfulResults
        IN  /\ \A x, y \in DOMAIN out :
                  (x # y /\ IsValidArticle(out[x]) /\ IsValidArticle(out[y]))
                      => out[x].articleNumber # out[y].articleNumber
            /\ Range(out) \subseteq Range(given)
            /\ \A x \in DOMAIN given :
                  /\ \E y \in DOMAIN out : ProductKey(out[y]) = ProductKey(given[x])
                  /\ (\A z \in DOMAIN given : z # x => ProductKey(given[z]) # ProductKey(given[x]))
                        => given[x] \in Range(out)
            /\ \A x, y \in DOMAIN out :
                  x < y => indexOf(uniqueLinks, out[x].url) <= indexOf(uniqueLinks, out[y].url)

\* C31 witness: three products completed in the order c, b, a of which b
\* repeats the article number of c; the list returned is a, c
C31_Witness ==
    /\ Scraped /\ uniqueLinks = <<"a", "b", "c">>
    /\ Len(successfulResults) = 3
    /\ successfulResults[1].url = "c" /\ successfulResults[2].url = "b"
    /\ successfulResults[1].articleNumber = "A1"
    /\ successfulResults[2].articleNumber = "A1"
    /\ successfulResults[3].articleNumber = "none"
    /\ result.products = <<successfulResults[3], successfulResults[1]>>

\* the entries of failedTasks for item u
FailedEntriesOf(u) == {k \in DOMAIN failedTasks : failedTasks[k].url = u}

\* C32: in threads mode, under every interleaving of the workers, every item
\* of the deduplicated queue is popped by at most one worker:
\* executeTaskWithRetries runs at most once per distinct item, no url is
\* twice in failedTasks, and no url is both the source of a success and an
\* entry of failedTasks.
C32_PoppedOnce ==
    mode = "threads" =>
        /\ \A u \in UrlValues :
              /\ Cardinality(ExecsOf(u)) <= 1
              /\ Cardinality(FailedEntriesOf(u)) <= 1
              /\ ~(ItemsFrom(successfulResults, u) # {} /\ FailedEntriesOf(u) # {})
        /\ \A v, w \in DOMAIN workers :
              (v # w /\ workers[v].exec # 0) => workers[v].exec # workers[w].exec
        /\ Returned => /\ NoItemInBoth(result)
                       /\ \A k, l \in DOMAIN result.failedTasks :
                             result.failedTasks[k].url = result.failedTasks[l].url => k = l

\* C32 witness: a returned run of two workers in which each of the two
\* distinct items was executed once, one with a success and one with a
\* failure
C32_Witness ==
    /\ mode = "threads" /\ Returned /\ Len(workers) = 2
    /\ Len(execs) = 2 /\ execs[1].url # execs[2].url
    /\ Len(result.failedTasks) = 1 /\ Len(result.successfulResults) = 1
    /\ result.failedTasks[1].url # result.successfulResults[1].src

\* C33: in every onProgress invocation of a run without cancellation the
\* statistics snapshot agrees with the completed count of the same call:
\* totalSuccess + totalFailed = completedCount, totalSuccess counting items.
C33_SnapshotConsistent ==
    (engine = "enhanced" /\ ~aborted) =>
        \A k \in DOMAIN onProgressCalls :
            onProgressCalls[k].totalSuccess + onProgressCalls[k].totalFailed
                = onProgressCalls[k].completedCount

\* C34: in a run without cancellation that processed N items the completed
\* counts handed to the successive onProgress invocations are 1, 2, ..., N,
\* each once and in increasing order, also with an asynchronous onError and
\* items that complete concurrently.
C34_ProgressCountsInSequence ==
    (onProgress /\ ~aborted) =>
        /\ \A k \in DOMAIN onProgressCalls : onProgressCalls[k].completedCount = k
        /\ Returned => Len(onProgressCalls) = Len(execs)

\* C35: while the signal has never been set, every item whose final outcome
\* is an error thrown by the task, whatever its message, has its entry in
\* failedTasks and is not counted in totalSuccess.
C35_FailureRecordedWithoutSignal ==
    ~aborted =>
        /\ \A e \in ExecsEnded("error") :
              \E k \in DOMAIN failedTasks :
                  failedTasks[k] = [url |-> execs[e].url, error |-> execs[e].lastError]
        /\ (Returned /\ engine = "enhanced") =>
              result.stats.totalSuccess = Cardinality(ExecsEnded("success"))

\* C36 as stated: in every returned result (normal completion, cancelled
\* run, abort before the start) stats.totalFailed is the length of
\* failedTasks.
C36_TotalFailedIsLength ==
    (Returned /\ engine = "enhanced") =>
        result.stats.totalFailed = Len(result.failedTasks)

\* C36 amended: the same for every run that got past the check of the signal
\* at the call, completed or cancelled; the result of a call that found the
\* signal set has totalFailed = 0 and the one synthetic entry in failedTasks.
C36_TotalFailedIsLengthAmended ==
    (Returned /\ engine = "enhanced") =>
        IF AbortedAtCall
        THEN result.stats.totalFailed = 0 /\ Len(result.failedTasks) = 1
        ELSE result.stats.totalFailed = Len(result.failedTasks)

\* C36 witness: a cancelled run that returned with one failed task and
\* totalFailed = 1
C36_Witness ==
    /\ Returned /\ engine = "enhanced" /\ aborted /\ ~AbortedAtCall
    /\ Len(execs) = 2
    /\ Len(result.failedTasks) = 1 /\ result.stats.totalFailed = 1
    /\ result.failedTasks[1].error = PlainError

\* C37: in every returned result, for every sequence of task outcomes and
\* every cancellation point, 0 <= totalSuccess, 0 <= totalFailed,
\* totalSuccess + totalFailed <= totalUrlsAttempted <= totalUrlsProvided and
\* totalRetriesMade <= totalUrlsAttempted * maxRetries.
C37_CounterBounds ==
    (Returned /\ engine = "enhanced") =>
        LET st == result.stats
        IN  /\ 0 <= st.totalSuccess
            /\ 0 <= st.totalFailed
            /\ st.totalSuccess + st.totalFailed <= st.totalUrlsAttempted
            /\ st.totalUrlsAttempted <= st.totalUrlsProvided
            /\ st.totalRetriesMade <= st.totalUrlsAttempted * maxRetries

\* C37 witness: a run of two items cancelled after a retry of the first, in
\* which the second item was never started
C37_Witness ==
    /\ Returned /\ engine = "enhanced" /\ aborted
    /\ result.stats.totalUrlsAttempted = 2
    /\ result.stats.totalSuccess + result.stats.totalFailed = 1
    /\ result.stats.totalRetriesMade = 1

\* C38: in threads mode the items begin their first attempt in the order of
\* the deduplicated input list: the executions, in the order in which they
\* were started, are those of a prefix of the queue, each with its first
\* invocation made when it was started, so that no item starts before an
\* item that precedes it in the queue.
C38_StartedInQueueOrder ==
    mode = "threads" =>
        /\ Len(execs) <= Len(uniqueUrls)
        /\ \A e \in DOMAIN execs :
              /\ e <= Len(uniqueUrls) => execs[e].url = uniqueUrls[e]
              /\ execs[e].calls >= 1

\* what the two engines have in common: the state without logHistory, the
\* retry counter, the statistics and the attempt number given to onError,
\* run by the basic engine
Common(S) ==
    [S EXCEPT !.engine = "basic",
              !.logHistory = <<>>,
              !.totalRetriesMade = 0,
              !.execs = [e \in DOMAIN S.execs |-> [S.execs[e] EXCEPT !.log = <<>>]],
              !.workers = [w \in DOMAIN S.workers |-> [S.workers[w] EXCEPT !.log = <<>>]],
              !.onErrorCalls = [k \in DOMAIN S.onErrorCalls |->
                                  [S.onErrorCalls[k] EXCEPT !.attempt = NoAttempt]],
              !.onProgressCalls = [k \in DOMAIN S.onProgressCalls |->
                                     [S.onProgressCalls[k] EXCEPT !.totalSuccess = NoStat,
                                                                  !.totalFailed = NoStat,
                                                                  !.totalRetriesMade = NoStat]],
              !.result = IF S.result.status = "resolved"
                         THEN [S.result EXCEPT !.stats = NoStats]
                         ELSE S.result]

\* the segment T of the enhanced engine and the segment B the basic engine
\* runs from the same common state end in the same common state
Agree(T, B) == Common(T) = Common(B)

====
